---------------------------- MODULE Spec2Model ----------------------------
(***************************************************************************)
(* A model of src/main.js: the event handlers (pointer lock, mouse, keys,  *)
(* the GLTF load callback) and the per-frame update(delta) of the          *)
(* shooting gallery.                                                       *)
(*                                                                         *)
(* Units.  The source computes in floating point; the model computes in    *)
(* integers with fixed units, and every input it draws is a multiple of    *)
(* them:                                                                   *)
(*   length    1 = 1 cm             time    1 tick = 0.1 s                 *)
(*   velocity  1 = 1 cm per tick    angle   1 = 1 mrad                     *)
(* so 1 m/s is 10, and gravity -30 m/s^2 is -30 cm per tick per tick.      *)
(* Unit vectors are in thousandths.  Math.sin is Bhaskara's rational       *)
(* approximation (error below 0.002), rounded to the thousandth.           *)
(***************************************************************************)
EXTENDS Integers, Sequences, FiniteSets, TLC

(***************************************************************************)
(* Bounds of the model.                                                    *)
(***************************************************************************)
\* update() is called while the clock is below MaxTime ticks.
MaxTime == 5
\* mousedown is delivered while fewer than MaxBalls paintballs are in flight.
MaxBalls == 2
\* The source spawns 30 targets (main.js:420); the model spawns MAX_TARGETS.
MAX_TARGETS == 2
\* The source makes 20 particles per explosion (main.js:498).
particleCount == 1
\* The source keeps 200 splatters (main.js:695).
splatterLimit == 2
\* mousemove is delivered while at most MaxMouse pixels are pending.
MaxMouse == 800
\* The same two bounds where only the mouse look is exercised.
LookTime == 4
LookMouse == 1600
\* The clock's bound where the player walks and jumps.
PlayerTime == 10
\* The clock's bound where paintballs live out their 3 s.
LifeTime == 39
\* The clock's bound where a target drifts out of bounds.
DriftTime == 63

(***************************************************************************)
(* Program constants, in the model's units.                                *)
(***************************************************************************)
playerHeight == 170          \* 1.7 m
gunHeight == 119             \* playerHeight * 0.7
muzzle == 100                \* dir.multiplyScalar(1.0): 1 m
ballSpeed == 400             \* 40 m/s
ballLife == 30               \* 3 s
particleLife == 5            \* 0.5 s
particleSpeed == 50          \* (Math.random() - 0.5) * 10: below 5 m/s
hitRadius == 80              \* 0.8 m
targetScore == 10
sensitivity == 2             \* 0.002 rad per pixel
Pi == 3142                   \* Math.PI
pitchMax == 1471             \* Math.PI / 2 - 0.1
moveSpeed == 100             \* 10 m/s
jumpSpeed == 120             \* 12 m/s
gravity == -30               \* -30 m/s^2
minY == 0
maxDist == 5000              \* 50 m
floorY == 200                \* targets are kept above 2 m
groundHalf == 10000          \* PlaneGeometry(200, 200)

(***************************************************************************)
(* Arithmetic.                                                             *)
(***************************************************************************)
Abs(a) == IF a < 0 THEN -a ELSE a

Max(a, b) == IF a > b THEN a ELSE b

Min(a, b) == IF a < b THEN a ELSE b

\* a / b rounded to the nearest integer, b > 0.
RoundDiv(a, b) == (2 * a + b) \div (2 * b)

\* 1000 * Math.sin(a) for a in mrad.
Sin1000(a) ==
    LET r == a % (2 * Pi)
        x == IF r > Pi THEN r - Pi ELSE r
        p == x * (Pi - x)
        s == RoundDiv(16 * p, RoundDiv(5 * Pi * Pi - 4 * p, 1000))
    IN  IF r > Pi THEN -s ELSE s

\* 1000 * Math.cos(a) for a in mrad.
Cos1000(a) == Sin1000(a + RoundDiv(Pi, 2))

(***************************************************************************)
(* THREE.Vector3, as a triple.                                             *)
(***************************************************************************)
VAdd(u, v) == <<u[1] + v[1], u[2] + v[2], u[3] + v[3]>>

VSub(u, v) == <<u[1] - v[1], u[2] - v[2], u[3] - v[3]>>

VScale(u, k) == <<u[1] * k, u[2] * k, u[3] * k>>

\* u * k / n, each component rounded.
VScaleDiv(u, k, n) ==
    <<RoundDiv(u[1] * k, n), RoundDiv(u[2] * k, n), RoundDiv(u[3] * k, n)>>

LengthSq(u) == u[1] * u[1] + u[2] * u[2] + u[3] * u[3]

\* a.distanceTo(b) < r, compared on the squares.
Closer(a, b, r) == LengthSq(VSub(a, b)) < r * r

RemoveAt(s, i) == SubSeq(s, 1, i - 1) \o SubSeq(s, i + 1, Len(s))

(***************************************************************************)
(* The program's state.                                                    *)
(***************************************************************************)
VARIABLES
    keys,             \* keys[code]: the key is held
    isPointerLocked,
    mouseDeltaX,
    mouseDeltaY,
    player,           \* position (of player.mesh), velocity, onGround, yaw, pitch
    modelLoaded,      \* the GLTF load callback has run
    targets,          \* sequence of [position, velocity, oscillation]
    paintballs,       \* sequence of [position, velocity, life, kind, born]
    splatters,        \* sequence of splatter serial numbers, oldest first
    score,
    splatMade,        \* history: splatters made so far (the next one's serial)
    now,              \* history: sum of the deltas of the frames so far
    acceptedX,        \* history: sum of the movementX received while locked
    log               \* history: the last frame's paintball loop, one entry
                      \* per paintball processed

vars == <<keys, isPointerLocked, mouseDeltaX, mouseDeltaY, player, modelLoaded,
          targets, paintballs, splatters, score, splatMade, now, acceptedX,
          log>>

KeyCodes == {"KeyW", "KeyS", "KeyA", "KeyD", "Space"}

(***************************************************************************)
(* World geometry.  The source draws 15 buildings at random; the model     *)
(* takes two of the boxes it can draw, with the stairs and the bridge the  *)
(* source puts between a pair.  A mesh is an axis-aligned box [lo, hi].    *)
(***************************************************************************)
buildings ==
    << [x |-> 0, z |-> -1000, w |-> 400, d |-> 400, h |-> 600],
       [x |-> 0, z |-> -2500, w |-> 400, d |-> 400, h |-> 900] >>

\* BoxGeometry(w, h, d) centred at c.
Box(c, w, h, d) ==
    [lo |-> <<c[1] - w \div 2, c[2] - h \div 2, c[3] - d \div 2>>,
     hi |-> <<c[1] + w \div 2, c[2] + h \div 2, c[3] + d \div 2>>]

addBuilding(b) == Box(<<b.x, b.h \div 2, b.z>>, b.w, b.h, b.d)

\* The steps from b1's roof to b2's roof, for a pair with b1.x = b2.x (the
\* distance is then |dz|).  The steps are not rotated: each is a box of
\* stepLength * 1.1 by 0.3 m by width.
addStairs(b1, b2) ==
    LET dz       == b2.z - b1.z
        dh       == b2.h - b1.h
        distance == Abs(dz)
        steps    == Max(3, distance \div 150)
        stepLen  == distance \div steps
    IN  { Box(<<b1.x, b1.h + (dh * i) \div steps + 15, b1.z + (dz * i) \div steps>>,
              (stepLen * 11) \div 10, 30, 200) : i \in 0..steps }

\* The bridge between b1 and b2, 1 m below the higher roof; for a pair with
\* b1.x = b2.x, lookAt turns its long side along z.
addSimpleBridge(b1, b2) ==
    LET top == Max(b1.h, b2.h) - 100
    IN  Box(<<b1.x, top, (b1.z + b2.z) \div 2>>, 100, 20, Abs(b2.z - b1.z))

buildingMeshes ==
    { addBuilding(buildings[i]) : i \in 1..Len(buildings) }
        \cup addStairs(buildings[1], buildings[2])
        \cup { addSimpleBridge(buildings[1], buildings[2]) }

(***************************************************************************)
(* raycaster.set(P, dir) with far = |PQ|: what the segment from P to Q     *)
(* hits.  Materials are front-sided, so a box is hit where the segment     *)
(* enters it and the ground where the segment comes down through it.       *)
(* Fractions n / m (m > 0) are compared by cross-multiplication.           *)
(***************************************************************************)
\* Along axis a the segment is inside [lo, hi] from Entry to Exit, each <<n, m>>.
Entry(P, Q, box, a) ==
    IF Q[a] > P[a] THEN <<box.lo[a] - P[a], Q[a] - P[a]>>
                   ELSE <<P[a] - box.hi[a], P[a] - Q[a]>>

Exit(P, Q, box, a) ==
    IF Q[a] > P[a] THEN <<box.hi[a] - P[a], Q[a] - P[a]>>
                   ELSE <<P[a] - box.lo[a], P[a] - Q[a]>>

FracLeq(f, g) == f[1] * g[2] <= g[1] * f[2]

SegmentHitsBox(P, Q, box) ==
    LET moving == { a \in 1..3 : Q[a] # P[a] }
    IN  /\ \A a \in (1..3) \ moving : box.lo[a] <= P[a] /\ P[a] <= box.hi[a]
        /\ \E a \in moving :
              LET e == Entry(P, Q, box, a)
              IN  /\ e[1] >= 0
                  /\ e[1] <= e[2]
                  /\ \A b \in moving : /\ FracLeq(Entry(P, Q, box, b), e)
                                       /\ FracLeq(e, Exit(P, Q, box, b))

SegmentHitsGround(P, Q) ==
    /\ P[2] >= 0
    /\ Q[2] <= 0
    /\ P[2] > Q[2]
    /\ LET m == P[2] - Q[2]
       IN  /\ Abs(P[1] * m + P[2] * (Q[1] - P[1])) <= groundHalf * m
           /\ Abs(P[3] * m + P[2] * (Q[3] - P[3])) <= groundHalf * m

\* raycaster.intersectObjects([...buildingMeshes, ground]).length > 0
Intersects(P, Q) ==
    \/ SegmentHitsGround(P, Q)
    \/ \E box \in buildingMeshes : SegmentHitsBox(P, Q, box)

(***************************************************************************)
(* The camera looks along lookDir, which update() sets from yaw and pitch; *)
(* yaw and pitch change only in update(), so between frames                *)
(* camera.getWorldDirection is LookDir(yaw, pitch), a unit vector in       *)
(* thousandths.                                                            *)
(***************************************************************************)
LookDir(yaw, pitch) ==
    <<RoundDiv(-Sin1000(yaw) * Cos1000(pitch), 1000),
      Sin1000(pitch),
      RoundDiv(-Cos1000(yaw) * Cos1000(pitch), 1000)>>

(***************************************************************************)
(* Event handlers.  The history variables are left to the actions below.   *)
(***************************************************************************)
\* document 'pointerlockchange': locked is document.pointerLockElement === canvas.
PointerLockChange(locked) ==
    /\ isPointerLocked' = locked
    /\ UNCHANGED <<keys, mouseDeltaX, mouseDeltaY, player, modelLoaded,
                   targets, paintballs, splatters, score>>

\* A mousemove handler that does not look at isPointerLocked.
MouseMoveUngated(movementX, movementY) ==
    /\ mouseDeltaX' = mouseDeltaX + movementX
    /\ mouseDeltaY' = mouseDeltaY + movementY
    /\ UNCHANGED <<keys, isPointerLocked, player, modelLoaded,
                   targets, paintballs, splatters, score>>

\* document 'mousemove'
MouseMove(movementX, movementY) ==
    /\ IF isPointerLocked
          THEN /\ mouseDeltaX' = mouseDeltaX + movementX
               /\ mouseDeltaY' = mouseDeltaY + movementY
          ELSE UNCHANGED <<mouseDeltaX, mouseDeltaY>>
    /\ UNCHANGED <<keys, isPointerLocked, player, modelLoaded,
                   targets, paintballs, splatters, score>>

\* window 'keydown'
KeyDown(code) ==
    /\ keys' = [keys EXCEPT ![code] = TRUE]
    /\ UNCHANGED <<isPointerLocked, mouseDeltaX, mouseDeltaY, player,
                   modelLoaded, targets, paintballs, splatters, score>>

\* window 'keyup'
KeyUp(code) ==
    /\ keys' = [keys EXCEPT ![code] = FALSE]
    /\ UNCHANGED <<isPointerLocked, mouseDeltaX, mouseDeltaY, player,
                   modelLoaded, targets, paintballs, splatters, score>>

\* The paintball shootPaintball() pushes: it starts 1 m along the camera
\* direction from the gun and flies at 40 m/s.
NewPaintball ==
    LET dir   == LookDir(player.yaw, player.pitch)
        start == VAdd(VAdd(player.position, <<0, gunHeight, 0>>),
                      VScaleDiv(dir, muzzle, 1000))
    IN  [position |-> start,
         velocity |-> VScaleDiv(dir, ballSpeed, 1000),
         life     |-> ballLife,
         kind     |-> "ball",
         born     |-> now]

shootPaintball ==
    /\ paintballs' = Append(paintballs, NewPaintball)
    /\ UNCHANGED <<keys, isPointerLocked, mouseDeltaX, mouseDeltaY, player,
                   modelLoaded, targets, splatters, score>>

\* A mousedown handler that does not look at isPointerLocked.
MouseDownUngated(button) ==
    IF button = 0
       THEN shootPaintball
       ELSE UNCHANGED <<keys, isPointerLocked, mouseDeltaX, mouseDeltaY, player,
                        modelLoaded, targets, paintballs, splatters, score>>

\* window 'mousedown'
MouseDown(button) ==
    IF button = 0 /\ isPointerLocked
       THEN shootPaintball
       ELSE UNCHANGED <<keys, isPointerLocked, mouseDeltaX, mouseDeltaY, player,
                        modelLoaded, targets, paintballs, splatters, score>>

\* The gltfLoader.load callback: player.mesh becomes the loaded model, whose
\* position is the origin.
ModelLoaded ==
    /\ ~modelLoaded
    /\ modelLoaded' = TRUE
    /\ player' = [player EXCEPT !.position = <<0, 0, 0>>]
    /\ UNCHANGED <<keys, isPointerLocked, mouseDeltaX, mouseDeltaY,
                   targets, paintballs, splatters, score>>


(***************************************************************************)
(* update(delta), in the order of the source: mouse look, movement, jump,  *)
(* gravity, ground collision, target drift, the paintball loop.  d is      *)
(* delta in ticks.                                                         *)
(***************************************************************************)
Clamp(v, lo, hi) == Max(lo, Min(hi, v))

\* <<yaw, pitch, mouseDeltaX, mouseDeltaY>> after the mouse-look block.
MouseLook ==
    IF isPointerLocked
       THEN <<player.yaw - mouseDeltaX * sensitivity,
              Clamp(player.pitch - mouseDeltaY * sensitivity, -pitchMax, pitchMax),
              0, 0>>
       ELSE <<player.yaw, player.pitch, mouseDeltaX, mouseDeltaY>>

\* move, normalised, in thousandths: <<x, z>>.
MoveVector ==
    LET x == (IF keys["KeyD"] THEN 1 ELSE 0) - (IF keys["KeyA"] THEN 1 ELSE 0)
        z == (IF keys["KeyS"] THEN 1 ELSE 0) - (IF keys["KeyW"] THEN 1 ELSE 0)
        n == IF x # 0 /\ z # 0 THEN 707 ELSE 1000
    IN  <<x * n, z * n>>

\* The horizontal velocity <<x, z>>: move rotated by yaw, at moveSpeed.
WalkVelocity(yaw) ==
    LET m == MoveVector
    IN  <<RoundDiv((m[1] * Cos1000(yaw) - m[2] * Sin1000(yaw)) * moveSpeed, 1000000),
          RoundDiv((m[1] * Sin1000(yaw) + m[2] * Cos1000(yaw)) * moveSpeed, 1000000)>>

\* The ground collision: below minY the player is put on minY and is on the
\* ground.
GroundCollision(p) ==
    IF p.position[2] < minY
       THEN [p EXCEPT !.position[2] = minY, !.velocity[2] = 0, !.onGround = TRUE]
       ELSE p

\* The player after the frame, given its new yaw and pitch.
MovePlayer(yaw, pitch, d) ==
    LET walk    == WalkVelocity(yaw)
        jump    == keys["Space"] /\ player.onGround
        vy      == (IF jump THEN jumpSpeed ELSE player.velocity[2]) + gravity * d
        vel     == <<walk[1], vy, walk[2]>>
    IN  GroundCollision(
            [position |-> VAdd(player.position, VScale(vel, d)),
             velocity |-> vel,
             onGround |-> IF jump THEN FALSE ELSE player.onGround,
             yaw      |-> yaw,
             pitch    |-> pitch])

\* Math.sin(target.oscillation * 2) * 0.5 * delta, in cm; osc is in ticks,
\* so target.oscillation * 2 is 200 mrad per tick.
Oscillate(osc, d) == RoundDiv(Sin1000(200 * osc) * 5 * d, 1000)

\* "Keep targets in bounds": beyond maxDist the velocity is reversed.
KeepInBounds(t) ==
    IF LengthSq(t.position) > maxDist * maxDist
       THEN [t EXCEPT !.velocity = VScale(@, -1)]
       ELSE t

\* "Keep targets above ground"
KeepAboveGround(t) ==
    IF t.position[2] < floorY
       THEN [t EXCEPT !.position[2] = floorY, !.velocity[2] = Abs(@)]
       ELSE t

\* One target after the frame's drift and oscillation.
DriftTarget(t, d) ==
    LET osc == t.oscillation + d
        pos == VAdd(VAdd(t.position, VScale(t.velocity, d)),
                    <<0, Oscillate(osc, d), 0>>)
    IN  KeepAboveGround(KeepInBounds(
            [position |-> pos, velocity |-> t.velocity, oscillation |-> osc]))

DriftTargets(ts, d) == [i \in 1..Len(ts) |-> DriftTarget(ts[i], d)]


(***************************************************************************)
(* The paintball loop of update().  The loop's state st is                 *)
(*   [paintballs, targets, splatters, splatMade, score, spawned, removed]  *)
(* where spawned counts the createTarget() calls of the frame and removed  *)
(* says that the paintball being processed is no longer in paintballs.     *)
(* Math.random() is the frame's input rnd: rnd.spawn, the targets that     *)
(* createTarget() draws in turn, and rnd.burst, the velocity               *)
(* createExplosion() draws (odd particles fly along it, even ones against  *)
(* it).                                                                    *)
(***************************************************************************)
\* createTarget(): the next draw of the frame.
createTarget(st, rnd) == rnd.spawn[(st.spawned % Len(rnd.spawn)) + 1]

\* The particles createExplosion(position, color) pushes; they are made in
\* the frame that ends at time t.
createExplosion(position, rnd, t) ==
    [k \in 1..particleCount |->
        [position |-> position,
         velocity |-> IF k % 2 = 1 THEN rnd.burst ELSE VScale(rnd.burst, -1),
         life     |-> particleLife,
         kind     |-> "particle",
         born     |-> t]]

\* A limit that drops the newest splatter instead of the oldest.
LimitSplattersNewest(s) ==
    IF Len(s) > splatterLimit THEN SubSeq(s, 1, Len(s) - 1) ELSE s

\* "Limit splatters": beyond the limit the oldest is shifted out.
LimitSplatters(s) == IF Len(s) > splatterLimit THEN Tail(s) ELSE s

\* addDecal(hit, color): the new splatter gets the next serial number.
addDecal(st) ==
    [st EXCEPT !.splatters = LimitSplatters(Append(@, st.splatMade)),
               !.splatMade = @ + 1]

\* A test that lets a paintball whose life is exactly 0 live on.
ExpiredBelowZero(life) == life < 0

\* b.life <= 0 after b.life -= delta
Expired(life) == life <= 0

\* dist < target.hitRadius, for a paintball at pos
HitsTarget(pos, target) == Closer(pos, target.position, hitRadius)

\* A hit that removes the target and spawns none in its place.
HitTargetNoSpawn(st, i, j, rnd, t) ==
    LET target == st.targets[j]
        pushed == st.paintballs \o createExplosion(target.position, rnd, t)
    IN  [st EXCEPT !.score      = @ + targetScore,
                   !.targets    = RemoveAt(@, j),
                   !.paintballs = RemoveAt(pushed, i),
                   !.removed    = TRUE]

\* The body of "if (dist < target.hitRadius)": paintball i, at pos, has hit
\* target j.
HitTarget(st, i, j, rnd, t) ==
    LET target == st.targets[j]
        pushed == st.paintballs \o createExplosion(target.position, rnd, t)
    IN  [st EXCEPT !.score      = @ + targetScore,
                   !.targets    = Append(RemoveAt(@, j), createTarget(st, rnd)),
                   !.spawned    = @ + 1,
                   !.paintballs = RemoveAt(pushed, i),
                   !.removed    = TRUE]

\* A loop over targets that goes on after a hit.
NoBreakAfterHit == FALSE

\* The loop over targets breaks at the first hit.
BreakAfterHit == TRUE

\* for (let j = targets.length - 1; j >= 0; j--), from index j down.
RECURSIVE TargetLoop(_, _, _, _, _, _)
TargetLoop(st, i, j, pos, rnd, t) ==
    IF j = 0 THEN st
    ELSE IF j <= Len(st.targets) /\ HitsTarget(pos, st.targets[j])
         THEN LET hit == HitTarget(st, i, j, rnd, t)
              IN  IF BreakAfterHit THEN hit
                  ELSE TargetLoop(hit, i, j - 1, pos, rnd, t)
         ELSE TargetLoop(st, i, j - 1, pos, rnd, t)

\* An iteration that leaves the splatter but keeps the paintball flying.
AfterTargetsKeepsBall(shot, drop, oldPos, pos) ==
    IF shot.removed THEN shot
    ELSE IF Intersects(oldPos, pos) THEN addDecal(shot)
    ELSE IF pos[2] < 0 THEN drop
    ELSE shot

\* The rest of an iteration once the loop over targets has run: shot is the
\* state it left, drop the state with the paintball spliced out.
AfterTargets(shot, drop, oldPos, pos) ==
    IF shot.removed THEN shot
    ELSE IF Intersects(oldPos, pos) THEN addDecal(drop)
    ELSE IF pos[2] < 0 THEN drop
    ELSE shot

\* The paintball after b.life -= delta and its move.
MoveBall(b, d) ==
    [b EXCEPT !.life = @ - d, !.position = VAdd(@, VScale(b.velocity, d))]

\* One iteration of the paintball loop, for paintballs[i].
ProcessBall(st, i, d, rnd, t) ==
    LET b     == st.paintballs[i]
        start == [st EXCEPT !.removed = FALSE]
        drop  == [start EXCEPT !.paintballs = RemoveAt(@, i), !.removed = TRUE]
    IN  IF Expired(b.life - d) THEN drop
        ELSE AfterTargets(
                 TargetLoop([start EXCEPT !.paintballs[i] = MoveBall(b, d)],
                            i, Len(st.targets), MoveBall(b, d).position, rnd, t),
                 drop, b.position, MoveBall(b, d).position)

\* for (let i = paintballs.length - 1; i >= 0; i--), from index i down: the
\* loop states, from the one the loop starts in to the one it ends in.
RECURSIVE PaintballLoop(_, _, _, _, _)
PaintballLoop(trace, i, d, rnd, t) ==
    IF i = 0 THEN trace
    ELSE PaintballLoop(Append(trace, ProcessBall(trace[Len(trace)], i, d, rnd, t)),
                       i - 1, d, rnd, t)

\* What an entry of the log keeps of a loop state.
Snapshot(st) ==
    [paintballs |-> st.paintballs, targets |-> st.targets,
     splatters |-> st.splatters, score |-> st.score]

\* One entry per iteration: the paintball's index, delta, and the state
\* before and after.
LogOf(trace, n, d) ==
    [k \in 1..(Len(trace) - 1) |->
        [i |-> n - k + 1, d |-> d,
         pre |-> Snapshot(trace[k]), post |-> Snapshot(trace[k + 1])]]

\* update(delta) with delta = d ticks and the frame's random draws rnd.
Update(d, rnd) ==
    LET st0 == [paintballs |-> paintballs,
                targets    |-> DriftTargets(targets, d),
                splatters  |-> splatters,
                splatMade  |-> splatMade,
                score      |-> score,
                spawned    |-> 0,
                removed    |-> FALSE]
    IN  \E look \in {MouseLook},
           trace \in {PaintballLoop(<<st0>>, Len(paintballs), d, rnd, now + d)} :
           \E end \in {trace[Len(trace)]} :
              /\ player' = MovePlayer(look[1], look[2], d)
              /\ mouseDeltaX' = look[3]
              /\ mouseDeltaY' = look[4]
              /\ targets' = end.targets
              /\ paintballs' = end.paintballs
              /\ splatters' = end.splatters
              /\ splatMade' = end.splatMade
              /\ score' = end.score
              /\ log' = LogOf(trace, Len(paintballs), d)
              /\ now' = now + d
              /\ UNCHANGED <<keys, isPointerLocked, modelLoaded>>

(***************************************************************************)
(* The state after the script has run.  starts holds the sequences of      *)
(* MAX_TARGETS targets that createTarget() can have drawn.                 *)
(***************************************************************************)
\* What createTarget() can draw: 10 to 40 m from the axis, 3 to 18 m up,
\* drifting at most 1 m/s along x and z and 0.5 m/s along y.
CanSpawn(t) ==
    LET r2 == t.position[1] * t.position[1] + t.position[3] * t.position[3]
    IN  /\ 1000 * 1000 <= r2 /\ r2 < 4000 * 4000
        /\ 300 <= t.position[2] /\ t.position[2] < 1800
        /\ Abs(t.velocity[1]) <= 10 /\ Abs(t.velocity[3]) <= 10
        /\ Abs(t.velocity[2]) <= 5
        /\ 0 <= t.oscillation /\ t.oscillation < 63

Target(p, v, osc) == [position |-> p, velocity |-> v, oscillation |-> osc]

Setup(starts) ==
    /\ keys = [c \in KeyCodes |-> FALSE]
    /\ isPointerLocked = FALSE
    /\ mouseDeltaX = 0
    /\ mouseDeltaY = 0
    /\ player = [position |-> <<0, playerHeight \div 2, 0>>,
                 velocity |-> <<0, 0, 0>>,
                 onGround |-> FALSE,
                 yaw      |-> 0,
                 pitch    |-> 0]
    /\ modelLoaded = FALSE
    /\ targets \in starts
    /\ paintballs = <<>>
    /\ splatters = <<>>
    /\ score = 0
    /\ splatMade = 0
    /\ now = 0
    /\ acceptedX = 0
    /\ log = <<>>

(***************************************************************************)
(* The actions: a handler with its inputs drawn from the given sets.       *)
(* draws holds the sequences createTarget() can draw in one frame.         *)
(***************************************************************************)
Frame(deltas, draws, bursts, horizon) ==
    \E d \in deltas, s \in draws, v \in bursts :
        /\ now + d <= horizon
        /\ Update(d, [spawn |-> s, burst |-> v])
        /\ UNCHANGED acceptedX

LockChange ==
    \E locked \in BOOLEAN :
        /\ PointerLockChange(locked)
        /\ UNCHANGED <<splatMade, now, acceptedX, log>>

\* The mouse moves while at most most pixels are pending on either axis.
Mouse(moves, most) ==
    \E m \in moves :
        /\ Abs(mouseDeltaX + m[1]) <= most
        /\ Abs(mouseDeltaY + m[2]) <= most
        /\ MouseMove(m[1], m[2])
        /\ acceptedX' = IF isPointerLocked THEN acceptedX + m[1] ELSE acceptedX
        /\ UNCHANGED <<splatMade, now, log>>

Press(codes) ==
    \E c \in codes :
        /\ KeyDown(c)
        /\ UNCHANGED <<splatMade, now, acceptedX, log>>

Release(codes) ==
    \E c \in codes :
        /\ KeyUp(c)
        /\ UNCHANGED <<splatMade, now, acceptedX, log>>

Click(buttons) ==
    \E b \in buttons :
        /\ Len(paintballs) < MaxBalls
        /\ MouseDown(b)
        /\ UNCHANGED <<splatMade, now, acceptedX, log>>

Loaded ==
    /\ ModelLoaded
    /\ UNCHANGED <<splatMade, now, acceptedX, log>>

(***************************************************************************)
(* Shooting: pointer lock, mouse and frames of 0.1 or 0.2 s.  One mouse    *)
(* move turns the camera a quarter turn to the right and 644 mrad up; a    *)
(* paintball shot that way passes <<1037, 900, 0>> or a little above 0.3 s *)
(* later, which is where the targets Near(k) are.  A paintball shot before *)
(* the camera has turned flies into the first building.                    *)
(***************************************************************************)
Near(k) == Target(<<1037, 899, 30 * k - 39>>, <<0, 0, 2 * (k % 2)>>, 10 * (k - 1))

Far(k) == Target(<<-3000, 1000, 100 * k>>, <<5, 2, -5>>, 20)

\* A particle thrown straight down as fast as createExplosion() throws one.
Bursts == { <<0, -particleSpeed, 0>> }

Deltas == {1, 2}

Moves == { <<785, -322>> }

Init == Setup({ [k \in 1..MAX_TARGETS |-> Near(k)] })

Next ==
    \/ Frame(Deltas, { <<Far(1), Near(2)>> }, Bursts, MaxTime)
    \/ LockChange
    \/ Mouse(Moves, MaxMouse)
    \/ Click({0, 2})

Spec == Init /\ [][Next]_vars

(***************************************************************************)
(* Mouse look: pointer lock, mouse moves to either side, up and down, and  *)
(* frames; nothing is shot.                                                *)
(***************************************************************************)
LookMoves == { <<785, -322>>, <<-785, 322>> }

NextLook ==
    \/ Frame(Deltas, { <<Far(1)>> }, Bursts, LookTime)
    \/ LockChange
    \/ Mouse(LookMoves, LookMouse)

SpecLook == Init /\ [][NextLook]_vars

(***************************************************************************)
(* Walking and jumping: the W and Space keys, the model load and frames;   *)
(* the pointer is never locked.  Frames go on for as long as the page is   *)
(* shown (requestAnimationFrame), which is the fairness of SpecPlayerFair. *)
(***************************************************************************)
PlayerFrame == Frame(Deltas, { <<Far(1)>> }, Bursts, PlayerTime)

NextPlayer ==
    \/ PlayerFrame
    \/ Press({"Space", "KeyW"})
    \/ Release({"Space", "KeyW"})
    \/ Loaded

SpecPlayer == Init /\ [][NextPlayer]_vars

SpecPlayerFair == SpecPlayer /\ WF_vars(PlayerFrame)

(***************************************************************************)
(* Lifetimes: frames of 0.3, 0.5 and 2.7 s, so that a paintball's life can *)
(* end at 0 exactly or below it.  The targets start near the line of fire, *)
(* where a paintball bursts into particles, or all far from it, where a    *)
(* paintball flies on until its life is over.  The pointer is locked once  *)
(* and the camera turned once.                                             *)
(***************************************************************************)
LifeDeltas == {3, 27}

InitLife ==
    Setup({ [k \in 1..MAX_TARGETS |-> Near(k)], [k \in 1..MAX_TARGETS |-> Far(k)] })

NextLife ==
    \/ Frame(LifeDeltas, { <<Far(1)>> }, Bursts, LifeTime)
    \/ (~isPointerLocked /\ LockChange)
    \/ (acceptedX = 0 /\ Mouse(Moves, MaxMouse))
    \/ Click({0})

SpecLife == InitLife /\ [][NextLife]_vars

(***************************************************************************)
(* Drift: nothing but frames, of 0.1 s or, after a stall, of 3 s.  The     *)
(* first target starts at the upper outer edge of where createTarget()     *)
(* spawns and drifts outwards at full speed, the others start low and      *)
(* sink.                                                                   *)
(***************************************************************************)
DriftDeltas == {1, 30}

Drifter(k) ==
    IF k = 1 THEN Target(<<3990, 1790, 0>>, <<10, 5, 0>>, 0)
    ELSE Target(<<0, 310, 1000 * k>>, <<0, -5, 1>>, 10 * k)

InitDrift == Setup({ [k \in 1..MAX_TARGETS |-> Drifter(k)] })

NextDrift == Frame(DriftDeltas, { <<Far(1)>> }, Bursts, DriftTime)

SpecDrift == InitDrift /\ [][NextDrift]_vars

(***************************************************************************)
(* Reading the log.  e is an entry: the iteration of the paintball loop    *)
(* for paintball e.i, from the loop state e.pre to e.post, in a frame of   *)
(* e.d ticks.                                                              *)
(***************************************************************************)
Entries == { log[k] : k \in 1..Len(log) }

EBall(e) == e.pre.paintballs[e.i]

\* The paintball is still alive after the frame's delta, so it moves.
EMoved(e) == EBall(e).life > e.d

EOldPos(e) == EBall(e).position

ENewPos(e) == VAdd(EOldPos(e), VScale(EBall(e).velocity, e.d))

\* The targets within hitRadius of the paintball's position after its move.
ENear(e) ==
    { j \in 1..Len(e.pre.targets) :
        LengthSq(VSub(ENewPos(e), e.pre.targets[j].position))
            < hitRadius * hitRadius }

\* The paintball is no longer in paintballs: what follows the others are
\* fresh explosion particles.
EGone(e) ==
    LET n == Len(e.pre.paintballs)
        q == e.post.paintballs
    IN  /\ Len(q) >= n - 1
        /\ SubSeq(q, 1, n - 1) = RemoveAt(e.pre.paintballs, e.i)
        /\ \A k \in n..Len(q) :
              q[k].kind = "particle" /\ q[k].life = particleLife

\* Target j was removed and one target appended.
ESwapped(e, j) ==
    LET n == Len(e.pre.targets)
    IN  /\ Len(e.post.targets) = n
        /\ SubSeq(e.post.targets, 1, n - 1) = RemoveAt(e.pre.targets, j)

\* The serial numbers of the splatters the iteration made.
ESplats(e) ==
    { e.post.splatters[k] : k \in 1..Len(e.post.splatters) }
        \ { e.pre.splatters[k] : k \in 1..Len(e.pre.splatters) }

\* One splatter was appended: the last of splatters is new, and what is
\* before it was there before.
EAppended(e) ==
    LET q == e.post.splatters
    IN  /\ Cardinality(ESplats(e)) = 1
        /\ Len(q) >= 1
        /\ q[Len(q)] \in ESplats(e)
        /\ \E k \in 0..Len(e.pre.splatters) :
              SubSeq(q, 1, Len(q) - 1)
                  = SubSeq(e.pre.splatters, k + 1, Len(e.pre.splatters))

\* C2: a paintball that after its move is closer than hitRadius to a target
\* adds exactly that target's score (10), removes exactly one target, which
\* is one of those in range, appends one new target, and is itself removed
\* from paintballs, however many targets are in range.
C2_HitScoresOnce ==
    \A e \in Entries :
        (EMoved(e) /\ ENear(e) # {}) =>
            /\ e.post.score = e.pre.score + targetScore
            /\ \E j \in ENear(e) : ESwapped(e, j)
            /\ EGone(e)

\* A frame in which a paintball had two targets in range and hit.
C2_Witness ==
    \E e \in Entries :
        /\ EMoved(e)
        /\ Cardinality(ENear(e)) >= 2
        /\ e.post.score = e.pre.score + targetScore

C6_TargetCount == Len(targets) = MAX_TARGETS

\* A frame with two hits.
C6_Witness ==
    \E e1, e2 \in Entries :
        /\ e1.i # e2.i
        /\ e1.post.score > e1.pre.score
        /\ e2.post.score > e2.pre.score

\* C7: splatters never holds more than splatterLimit entries, and what it
\* holds are the newest splatters made, oldest first: the one just added is
\* the last, and the ones dropped are the oldest.
C7_SplattersFifo ==
    /\ Len(splatters) = Min(splatMade, splatterLimit)
    /\ \A k \in 1..Len(splatters) :
          splatters[k] = splatMade - Len(splatters) + k - 1
    /\ \A e \in Entries :
          ESplats(e) # {} =>
              /\ Len(e.post.splatters) <= splatterLimit
              /\ EAppended(e)

\* An addDecal() call that found splatters full and dropped the oldest.
C7_Witness ==
    \E e \in Entries :
        /\ ESplats(e) # {}
        /\ Len(e.pre.splatters) = splatterLimit
        /\ e.post.splatters[1] = e.pre.splatters[2]


\* The segment the paintball travels passes within hitRadius of target j:
\* one of the points an eighth of a tick apart along it is that close.
ESweeps(e, j) ==
    \E k \in 0..(8 * e.d) :
        LengthSq(VSub(VAdd(EOldPos(e), VScaleDiv(EBall(e).velocity, k, 8)),
                      e.pre.targets[j].position))
            < hitRadius * hitRadius

\* C9: a paintball whose segment of the frame passes within hitRadius of a
\* target's centre scores in that frame.
C9_SweptHit ==
    \A e \in Entries :
        (EMoved(e) /\ \E j \in 1..Len(e.pre.targets) : ESweeps(e, j))
            => e.post.score > e.pre.score

\* What update() does not check: a paintball that passed within hitRadius of
\* a target in mid-frame and ended the frame out of range of every target
\* flies on.
C9_PointSampled ==
    \A e \in Entries :
        (EMoved(e) /\ ENear(e) = {}) => e.post.score = e.pre.score

\* C5: a mousedown with button 0 while the pointer is locked appends exactly
\* one paintball, of life 3 s; any other mousedown leaves paintballs,
\* targets, splatters and score unchanged.
C5_LeftClickShootsWhenLocked ==
    [][\A b \in {0, 1, 2} :
          MouseDown(b) =>
              IF b = 0 /\ isPointerLocked
                 THEN /\ Len(paintballs') = Len(paintballs) + 1
                      /\ SubSeq(paintballs', 1, Len(paintballs)) = paintballs
                      /\ paintballs'[Len(paintballs')].life = ballLife
                 ELSE UNCHANGED <<paintballs, targets, splatters, score>>]_vars

\* A paintball has just been shot, and two are in flight.
C5_Witness ==
    /\ isPointerLocked
    /\ Len(paintballs) = 2
    /\ paintballs[2].life = ballLife
    /\ paintballs[2].born = now

\* C10: a mousemove while the pointer is not locked changes neither the
\* pending mouse deltas nor yaw and pitch; one while locked is added to the
\* pending deltas; update() while locked subtracts the pending deltas, times
\* the sensitivity, from yaw and leaves them zero; update() while not locked
\* leaves yaw, pitch and the pending deltas as they are.  So yaw is always
\* the movement received while locked, less what is pending, applied once.
C10_MouseLook ==
    [][/\ \A m \in LookMoves :
            MouseMove(m[1], m[2]) =>
                /\ player' = player
                /\ IF isPointerLocked
                      THEN /\ mouseDeltaX' = mouseDeltaX + m[1]
                           /\ mouseDeltaY' = mouseDeltaY + m[2]
                      ELSE UNCHANGED <<mouseDeltaX, mouseDeltaY>>
       /\ (now' # now /\ isPointerLocked) =>
             /\ player'.yaw = player.yaw - mouseDeltaX * sensitivity
             /\ mouseDeltaX' = 0
             /\ mouseDeltaY' = 0
       /\ (now' # now /\ ~isPointerLocked) =>
             /\ player'.yaw = player.yaw
             /\ player'.pitch = player.pitch
             /\ UNCHANGED <<mouseDeltaX, mouseDeltaY>>
       /\ player'.yaw = - sensitivity * (acceptedX' - mouseDeltaX')]_vars

\* Two mouse moves were received while locked and one update() applied them.
C10_Witness ==
    /\ acceptedX = 2 * 785
    /\ mouseDeltaX = 0
    /\ player.yaw = - 2 * 1570


\* The player is supported at the end of a frame, above the ground plane.
SupportedAboveGround ==
    /\ player.onGround
    /\ player.velocity[2] = 0
    /\ player.position[2] > 0

C1_SupportedOnlyAtGroundLevel ==
    player.onGround => (player.position[2] = minY /\ player.velocity[2] = 0)

\* The player's feet are inside mesh box, under its top.
PlayerInside(box) ==
    /\ \A a \in {1, 3} : box.lo[a] < player.position[a]
                         /\ player.position[a] < box.hi[a]
    /\ box.lo[2] <= player.position[2]
    /\ player.position[2] < box.hi[2]

LifeOf(kind) == IF kind = "ball" THEN ballLife ELSE particleLife

Outside(t) == LengthSq(t.position) > maxDist * maxDist

\* C8: a target that is outside radius maxDist at the start of a frame does
\* not end the frame farther from the origin than it started it.
C8_NeverMovesAwayOutside ==
    [][\A k \in 1..Len(targets) :
          Outside(targets[k]) =>
              LengthSq(targets'[k].position) <= LengthSq(targets[k].position)]_vars

\* What the reversal does give: a target that ends a frame outside has had
\* its velocity reversed in that frame, whichever way it was moving.
C8_ReversedWhenOutside ==
    [][\A k \in 1..Len(targets) :
          Outside(targets'[k]) =>
              \A a \in {1, 3} : targets'[k].velocity[a] = - targets[k].velocity[a]]_vars

\* A target is outside radius maxDist and its velocity points away from the
\* origin.
C8_OutsideAndOutbound ==
    \E k \in 1..Len(targets) :
        /\ Outside(targets[k])
        /\ \A a \in {1, 2, 3} : targets[k].position[a] * targets[k].velocity[a] >= 0
        /\ \E a \in {1, 2, 3} : targets[k].position[a] * targets[k].velocity[a] > 0

\* C11: the load callback leaves the player where it was: on the step in
\* which the model finishes loading, position, velocity, onGround, yaw and
\* pitch are unchanged.
C11_LoadLeavesPlayerInPlace ==
    [][modelLoaded' # modelLoaded => player' = player]_vars

\* What the callback does keep: everything of the player but the position,
\* which is that of the new mesh, the origin.
C11_LoadKeepsAllButPosition ==
    [][modelLoaded' # modelLoaded =>
          /\ player' = [player EXCEPT !.position = <<0, 0, 0>>]]_vars

\* The model has loaded while the player was walking away at full speed, and
\* the player is back at the origin.
C11_WalkerBackAtOrigin ==
    /\ modelLoaded
    /\ player.velocity[3] = - moveSpeed
    /\ player.position = <<0, 0, 0>>

=============================================================================
